---- MODULE Spec2Model ----
(***************************************************************************)
(* Model of PhoneJailCode_V2.ino: the locking state machine, the countdown *)
(* timer with its EEPROM checkpoint, the encoder interrupt service and the *)
(* boot sequence.                                                          *)
(*                                                                         *)
(* An `unsigned long' of the target (32 bits) is a pair <<hi, lo>> of two  *)
(* 16-bit limbs, so that the arithmetic wraps at 2^32 exactly as on the    *)
(* board while every intermediate number stays small.                      *)
(***************************************************************************)
EXTENDS Integers, Sequences, FiniteSets, TLC

\* ---------------------------------------------------------------- bounds
MaxBoots == 2         \* power-ups explored
MaxMillis == 130000   \* passes of loop() are explored while the clock reads less than this
Step == 60000         \* [ms] granule of the time between two passes of loop()
MaxGap == 1           \* a pass starts 0 .. MaxGap granules after the previous one
MaxClicks == 1        \* encoder increments accepted while Duration is below MaxClicks * timerIncrement

\* ------------------------------------------------ unsigned long, 32 bits
Limb == 65536

U32(n) == <<n \div Limb, n % Limb>>

Add32(a, b) ==
  LET lo == a[2] + b[2]
  IN  <<(a[1] + b[1] + (lo \div Limb)) % Limb, lo % Limb>>

SubSaturating(a, b) ==
  LET lo == a[2] - b[2]
      borrow == IF lo < 0 THEN 1 ELSE 0
  IN  IF a[1] < b[1] \/ (a[1] = b[1] /\ a[2] < b[2])
        THEN <<0, 0>>
        ELSE <<a[1] - b[1] - borrow, (lo + Limb) % Limb>>

\* a - b of two unsigned long: the difference modulo 2^32
Sub32(a, b) ==
  LET lo == a[2] - b[2]
      borrow == IF lo < 0 THEN 1 ELSE 0
  IN  <<(a[1] - b[1] - borrow + 2 * Limb) % Limb, (lo + Limb) % Limb>>

Lt32(a, b) == a[1] < b[1] \/ (a[1] = b[1] /\ a[2] < b[2])
Ge32(a, b) == ~Lt32(a, b)
Gt32(a, b) == Lt32(b, a)

Zero == U32(0)

\* Carry out of the 32-bit addition a + b: 0 exactly when the sum fits.
Carry32(a, b) == (a[1] + b[1] + ((a[2] + b[2]) \div Limb)) \div Limb

\* A duration in real time: its value while below 2^32, else TooLong.
TooLong == <<Limb, 0>>
AddTrue(a, b) ==
  IF a = TooLong \/ Carry32(a, b) > 0 THEN TooLong ELSE Add32(a, b)

\* ------------------------------------------------------ module constants
closedAngle == 90
openAngle == 0
timerIncrement == 60000
signature == <<4660, 22136>>      \* 0x12345678
signatureAddr == 0
timeRemainingAddr == 16
timerDurationAddr == 32
interval == 60000
punishment == 3600000
setupDelay == 75

\* The EEPROM is modelled word by word: the three fields the sketch uses and
\* one more word standing for the rest of the array.
otherAddr == 48
EEPROMAddrs == {signatureAddr, timeRemainingAddr, timerDurationAddr, otherAddr}

Factory == [a \in EEPROMAddrs |-> <<65535, 65535>>]    \* erased chip: 0xFF bytes
Garbage == [a \in EEPROMAddrs |->
              IF a = signatureAddr THEN <<4660, 0>> ELSE U32(90000)]
\* the store as the first power-up of the sketch leaves it
FirstBooted == [a \in EEPROMAddrs |->
                  IF a = signatureAddr THEN signature ELSE Zero]

\* Duration after 71582 increments from 0, the last that fit in 32 bits:
\* 4294920000.
TopDuration == <<65535, 18240>>
\* The clock 71582 granules of 60000 ms after the end of setup: 4294920075,
\* and the checkpoint written one granule earlier: 4294860075.
NearWrapClock == <<65535, 18315>>
NearWrapLastWrite == <<65534, 23851>>

VARIABLES
  pc,               \* "off", "loop" (setup done, loop() running), "halted" (for(;;) in setup)
  boots,            \* number of power-ups so far
  millis,           \* the millisecond clock since power-up
  eeprom,           \* the persistent store
  currentLockState,
  timerDuration,
  timeRemaining,
  startTime,
  isTimerRunning,   \* the global flag read by the display service
  lastWriteTime,
  prevButtonState,  \* static of CheckButtonPressed
  isButtonPressed,  \* local of the latest RunLockingSM call
  timerExpired,     \* value returned by CheckTimerExpired in that call
  servoCmd,         \* <<angle>> written to the servo in the latest cycle, or <<>>
  servoAngle,       \* <<angle>> last written to the servo since power-up, or <<>>
  eepromPuts,       \* addresses put to the EEPROM in the latest cycle
  putLog,           \* clock readings at the puts of timeRemaining since power-up
  bootRemaining,    \* timeRemaining at the end of setup when the store was read, else <<>>
  sinceStart,       \* real time since startTime was assigned (since power-up before that)
  sinceWrite,       \* real time since lastWriteTime was assigned (since power-up before that)
  edgeDropped,      \* the latest routine to run was RunScrollingService and it ignored its edge
  screen            \* what the display service drew last

vars == <<pc, boots, millis, eeprom, currentLockState, timerDuration,
          timeRemaining, startTime, isTimerRunning, lastWriteTime,
          prevButtonState, isButtonPressed, timerExpired, servoCmd, servoAngle, eepromPuts, putLog,
          bootRemaining, sinceStart, sinceWrite, edgeDropped, screen>>

ram == <<currentLockState, timerDuration, timeRemaining, startTime,
         isTimerRunning, lastWriteTime, prevButtonState>>
locals == <<isButtonPressed, timerExpired>>
trace == <<servoCmd, servoAngle, eepromPuts, putLog, bootRemaining, screen>>

\* Values of the globals and statics when the program image starts.
Reset ==
  /\ currentLockState' = "STATE_LOCKED"
  /\ timerDuration' = Zero
  /\ timeRemaining' = Zero
  /\ startTime' = Zero
  /\ isTimerRunning' = FALSE
  /\ lastWriteTime' = Zero
  /\ prevButtonState' = FALSE
  /\ isButtonPressed' = FALSE
  /\ timerExpired' = FALSE
  /\ servoCmd' = <<>>
  /\ servoAngle' = <<>>
  /\ eepromPuts' = {}
  /\ putLog' = <<>>
  /\ bootRemaining' = <<>>
  /\ edgeDropped' = FALSE
  /\ sinceStart' = Zero
  /\ sinceWrite' = Zero
  /\ screen' = "blank"
  /\ millis' = Zero

Init ==
  /\ pc = "off"
  /\ boots = 0
  /\ eeprom \in {Factory, Garbage, FirstBooted}
  /\ currentLockState = "STATE_LOCKED"
  /\ timerDuration = Zero
  /\ timeRemaining = Zero
  /\ startTime = Zero
  /\ isTimerRunning = FALSE
  /\ lastWriteTime = Zero
  /\ prevButtonState = FALSE
  /\ isButtonPressed = FALSE
  /\ timerExpired = FALSE
  /\ servoCmd = <<>>
  /\ servoAngle = <<>>
  /\ eepromPuts = {}
  /\ putLog = <<>>
  /\ bootRemaining = <<>>
  /\ edgeDropped = FALSE
  /\ sinceStart = Zero
  /\ sinceWrite = Zero
  /\ screen = "blank"
  /\ millis = Zero

\* ------------------------------------------------------------- functions

EEPROMInitialized(e) == e[signatureAddr] = signature

SignOnly(e) == [e EXCEPT ![signatureAddr] = signature]

\* The erase loop followed by the put of the signature.
EraseAndSign(e) ==
  [a \in EEPROMAddrs |-> IF a = signatureAddr THEN signature ELSE Zero]

LevelTriggered(prev, level) ==
  [returnVal |-> level,
   prevButtonState |-> level]

\* Result of CheckButtonPressed for the static prev and the sampled level.
CheckButtonPressed(prev, level) ==
  [returnVal |-> (prev # level) /\ level,
   prevButtonState |-> level]

CheckpointDueOrEqual(now, lastWrite) ==
  Ge32(Sub32(now, lastWrite), U32(interval))

\* The test guarding the checkpoint in CheckTimerExpired.
CheckpointDue(now, lastWrite) ==
  Gt32(Sub32(now, lastWrite), U32(interval))

RemainingUnclamped(now, start, duration, remaining, lastWrite, e) ==
  LET elapsedTime == Sub32(now, start)
      expired == Ge32(elapsedTime, remaining)
      newRemaining == Sub32(duration, elapsedTime)
      write == CheckpointDue(now, lastWrite)
  IN  [returnVal |-> expired,
       timeRemaining |-> newRemaining,
       wrote |-> write,
       eeprom |-> IF write THEN [e EXCEPT ![timeRemainingAddr] = newRemaining] ELSE e,
       lastWriteTime |-> IF write THEN now ELSE lastWrite]

\* Result of CheckTimerExpired when millis() reads now.
CheckTimerExpired(now, start, duration, remaining, lastWrite, e) ==
  LET elapsedTime == Sub32(now, start)
      expired == Ge32(elapsedTime, remaining)
      newRemaining == IF expired THEN Zero ELSE Sub32(duration, elapsedTime)
      write == CheckpointDue(now, lastWrite)
  IN  [returnVal |-> expired,
       timeRemaining |-> newRemaining,
       wrote |-> write,
       eeprom |-> IF write THEN [e EXCEPT ![timeRemainingAddr] = newRemaining] ELSE e,
       lastWriteTime |-> IF write THEN now ELSE lastWrite]

PressOnly(pressed, duration) == pressed

\* The condition of the STATE_IDLE case of RunLockingSM.
LockRequested(pressed, duration) == pressed /\ Gt32(duration, Zero)

PutDurationAtRemaining(e, duration) == [e EXCEPT ![timeRemainingAddr] = duration]

\* EEPROM.put(timerDurationAddr, timerDuration)
PutDuration(e, duration) == [e EXCEPT ![timerDurationAddr] = duration]

ServoWriteLost(angle) == <<>>

\* servo.write(angle): the command the actuator receives.
ServoWrite(angle) == <<angle>>

\* What RunDisplayUpdateService draws.
RunDisplayUpdateService(running) ==
  IF running THEN "Remaining:" ELSE "Set Time:"

\* --------------------------------------------------------------- actions

\* Power is removed and applied again: RAM is lost, the store is kept.
PowerCycle ==
  /\ pc # "off"
  /\ boots < MaxBoots
  /\ pc' = "off"
  /\ Reset
  /\ UNCHANGED <<boots, eeprom>>

\* setup(): displayOk is the result of display.begin.
setup(displayOk) ==
  /\ pc = "off"
  /\ boots' = boots + 1
  /\ IF ~EEPROMInitialized(eeprom)
       THEN /\ eeprom' = EraseAndSign(eeprom)
            /\ UNCHANGED <<timeRemaining, timerDuration, currentLockState,
                           bootRemaining>>
       ELSE /\ timeRemaining' = Add32(eeprom[timeRemainingAddr], U32(punishment))
            /\ bootRemaining' = timeRemaining'
            /\ timerDuration' = eeprom[timerDurationAddr]
            /\ currentLockState' = "STATE_LOCKED"
            /\ UNCHANGED eeprom
  /\ IF displayOk
       THEN /\ pc' = "loop"
            /\ millis' = Add32(millis, U32(setupDelay))
            /\ sinceStart' = AddTrue(sinceStart, U32(setupDelay))
            /\ sinceWrite' = AddTrue(sinceWrite, U32(setupDelay))
       ELSE /\ pc' = "halted"
            /\ UNCHANGED <<millis, sinceStart, sinceWrite>>
  /\ UNCHANGED <<startTime, isTimerRunning, lastWriteTime,
                 prevButtonState, locals, servoCmd, servoAngle, eepromPuts,
                 putLog, edgeDropped, screen>>

\* Encoder edges are explored while Duration is within MaxClicks increments
\* of 0, or at the top of its range.
ClicksExplored(duration) ==
  \/ Lt32(duration, U32((MaxClicks + 1) * timerIncrement))
  \/ Ge32(duration, TopDuration)

ScrollingAlways(state) == TRUE

\* The gate of RunScrollingService: Duration changes only in the idle state.
ScrollingEnabled(state) == state = "STATE_IDLE"

\* RunScrollingService, the interrupt handler on encoder channel A; it is
\* attached in setup before the display is started.
RunScrollingService(A_state, B_state) ==
  /\ pc # "off"
  /\ edgeDropped' = ~ScrollingEnabled(currentLockState)
  /\ IF ScrollingEnabled(currentLockState)
       THEN IF A_state = B_state
              THEN /\ ClicksExplored(timerDuration)
                   /\ IF Gt32(timerDuration, Zero)
                        THEN timerDuration' = Sub32(timerDuration, U32(timerIncrement))
                        ELSE UNCHANGED timerDuration
              ELSE /\ ClicksExplored(timerDuration)
                   /\ Ge32(timerDuration, U32(MaxClicks * timerIncrement))
                        => Ge32(timerDuration, TopDuration)
                   /\ timerDuration' = Add32(timerDuration, U32(timerIncrement))
       ELSE UNCHANGED timerDuration
  /\ UNCHANGED <<pc, boots, millis, eeprom, currentLockState,
                 timeRemaining, startTime, isTimerRunning, lastWriteTime,
                 prevButtonState, locals, trace, sinceStart, sinceWrite>>

\* One pass of loop(): RunDisplayUpdateService, then RunLockingSM.
\* level is the button pin; gap is the time since the previous pass (or since
\* the end of setup), in granules.  The millis() reads of one pass agree.
loop(level, gap) ==
  /\ pc = "loop"
  /\ Lt32(millis, U32(MaxMillis)) \/ Ge32(millis, NearWrapClock)
  /\ LET now == Add32(millis, U32(gap * Step))
         b == CheckButtonPressed(prevButtonState, level)
         t == CheckTimerExpired(now, startTime, timerDuration,
                                timeRemaining, lastWriteTime, eeprom)
         lock == currentLockState = "STATE_IDLE"
                   /\ LockRequested(b.returnVal, timerDuration)
         unlock == currentLockState = "STATE_LOCKED" /\ ~t.returnVal
     IN  /\ millis' = now
         /\ screen' = RunDisplayUpdateService(isTimerRunning)
         /\ prevButtonState' = b.prevButtonState
         /\ isButtonPressed' = b.returnVal
         /\ timerExpired' = t.returnVal
         /\ timeRemaining' = t.timeRemaining
         /\ lastWriteTime' = t.lastWriteTime
         /\ putLog' = IF t.wrote THEN Append(putLog, now) ELSE putLog
         /\ sinceWrite' = IF t.wrote THEN Zero
                                    ELSE AddTrue(sinceWrite, U32(gap * Step))
         /\ sinceStart' = IF lock THEN Zero
                                 ELSE AddTrue(sinceStart, U32(gap * Step))
         /\ IF lock
              THEN /\ servoCmd' = ServoWrite(closedAngle)
                   /\ servoAngle' = ServoWrite(closedAngle)
                   /\ startTime' = now
                   /\ eeprom' = PutDuration(t.eeprom, timerDuration)
                   /\ eepromPuts' = (IF t.wrote THEN {timeRemainingAddr} ELSE {})
                                      \cup {timerDurationAddr}
                   /\ currentLockState' = "STATE_LOCKED"
                   /\ UNCHANGED timerDuration
              ELSE /\ eeprom' = t.eeprom
                   /\ eepromPuts' = IF t.wrote THEN {timeRemainingAddr} ELSE {}
                   /\ IF unlock
                        THEN /\ servoCmd' = ServoWrite(openAngle)
                             /\ servoAngle' = ServoWrite(openAngle)
                             /\ timerDuration' = Zero
                             /\ currentLockState' = "STATE_IDLE"
                             /\ UNCHANGED startTime
                        ELSE /\ servoCmd' = <<>>
                             /\ UNCHANGED <<servoAngle, startTime, timerDuration,
                                            currentLockState>>
  /\ edgeDropped' = FALSE
  /\ UNCHANGED <<pc, boots, isTimerRunning, bootRemaining>>

Next ==
  \/ PowerCycle
  \/ \E displayOk \in BOOLEAN : setup(displayOk)
  \/ \E A_state \in BOOLEAN, B_state \in BOOLEAN : RunScrollingService(A_state, B_state)
  \/ \E level \in BOOLEAN, gap \in 0 .. MaxGap : loop(level, gap)

Spec == Init /\ [][Next]_vars

\* The box after a long time in service.  Both states follow a power-up on
\* the store FirstBooted whose first pass of loop(), 75 ms later, opened the
\* box.  In the first, 71582 encoder increments followed.  In the second,
\* loop() went on passing once per granule for 71582 granules, putting a
\* checkpoint every other pass (putLog keeps the latest of them only).
InitWrap ==
  /\ pc = "loop"
  /\ boots = 1
  /\ eeprom = FirstBooted
  /\ currentLockState = "STATE_IDLE"
  /\ startTime = Zero
  /\ isTimerRunning = FALSE
  /\ prevButtonState = FALSE
  /\ isButtonPressed = FALSE
  /\ servoAngle = <<openAngle>>
  /\ eepromPuts = {}
  /\ bootRemaining = U32(punishment)
  /\ edgeDropped = FALSE
  /\ screen = "Set Time:"
  /\ \/ /\ timerDuration = TopDuration
        /\ millis = U32(setupDelay)
        /\ sinceStart = U32(setupDelay)
        /\ sinceWrite = U32(setupDelay)
        /\ timeRemaining = Sub32(Zero, U32(setupDelay))
        /\ timerExpired = FALSE
        /\ lastWriteTime = Zero
        /\ putLog = <<>>
        /\ servoCmd = <<openAngle>>
     \/ /\ timerDuration = Zero
        /\ millis = NearWrapClock
        /\ sinceStart = NearWrapClock
        /\ sinceWrite = Sub32(NearWrapClock, NearWrapLastWrite)
        /\ timeRemaining = Zero
        /\ timerExpired = TRUE
        /\ lastWriteTime = NearWrapLastWrite
        /\ putLog = <<NearWrapLastWrite>>
        /\ servoCmd = <<>>

\* The steps of a board that stays powered: the encoder interrupt and loop().
NextPowered ==
  \/ \E A_state \in BOOLEAN, B_state \in BOOLEAN : RunScrollingService(A_state, B_state)
  \/ \E level \in BOOLEAN, gap \in 0 .. MaxGap : loop(level, gap)

SpecWrap == InitWrap /\ [][NextPowered]_vars

TypeOK ==
  /\ pc \in {"off", "loop", "halted", "lock_put", "lock_state"}
  /\ currentLockState \in {"STATE_IDLE", "STATE_LOCKED"}
  /\ \A v \in {timerDuration, timeRemaining, startTime, lastWriteTime, millis} :
        v \in (0 .. Limb - 1) \X (0 .. Limb - 1)

\* A step that is one pass of loop(): the program keeps running, and the
\* step is not one of RunScrollingService, which either changes timerDuration
\* alone or finds the selector gated off.
LoopStep ==
  /\ pc = "loop" /\ pc' = "loop"
  /\ ~edgeDropped'
  /\ timerDuration' = timerDuration \/ currentLockState' # currentLockState

\* A step that is a run of setup().
SetupStep == pc = "off" /\ pc' # "off"

\* The pass of loop() polled the timer at clock reading millis'.
Elapsed == Sub32(millis', startTime)

\* max(d - e, 0) over the naturals
MonusOrZero(d, e) == IF Lt32(d, e) THEN Zero ELSE Sub32(d, e)

\* The box was locked by a button press of this power-up and has not been
\* opened since.
LockedByPress ==
  currentLockState = "STATE_LOCKED" /\ servoAngle = <<closedAngle>>

\* The box is locked since power-up: no servo command has been issued yet.
LockedByBoot ==
  currentLockState = "STATE_LOCKED" /\ servoAngle = <<>>

\* --------------------------------------------------------------- claims

\* C1: after a button-press lock with Duration D > 0, every pass of loop()
\* polled while now - startTime < D leaves the state Locked and does not
\* command the servo open.
C1_LockedUntilElapsed ==
  [][ (LoopStep /\ LockedByPress /\ Gt32(timerDuration, Zero)
         /\ Lt32(Elapsed, timerDuration))
      => (currentLockState' = "STATE_LOCKED" /\ servoCmd' # <<openAngle>>) ]_vars

\* C2: a pass of loop() that starts Locked and whose timer poll reports
\* expired ends Idle, with the servo commanded open and Duration reset to 0.
C2_ExpiredUnlocks ==
  [][ (LoopStep /\ currentLockState = "STATE_LOCKED" /\ timerExpired')
      => (currentLockState' = "STATE_IDLE" /\ servoCmd' = <<openAngle>>
            /\ timerDuration' = Zero) ]_vars

\* C3: after a boot that restored RemainingTime = R + punishment from the
\* store, every pass of loop() polled while the time since boot is below that
\* value leaves the state Locked and does not command the servo open.
C3_RestoredLockHolds ==
  [][ (LoopStep /\ LockedByBoot /\ bootRemaining # <<>>
         /\ Lt32(millis', bootRemaining))
      => (currentLockState' = "STATE_LOCKED" /\ servoCmd' # <<openAngle>>) ]_vars

\* C4: a pass of loop() that starts Idle, detects a press edge and sees
\* Duration > 0 commands the servo closed, sets startTime to the clock, puts
\* Duration into the store's Duration field and ends Locked.
C4_PressLocks ==
  [][ (LoopStep /\ currentLockState = "STATE_IDLE" /\ isButtonPressed'
         /\ Gt32(timerDuration, Zero))
      => /\ servoCmd' = <<closedAngle>>
         /\ startTime' = millis'
         /\ timerDurationAddr \in eepromPuts'
         /\ eeprom'[timerDurationAddr] = timerDuration
         /\ timerDuration' = timerDuration
         /\ currentLockState' = "STATE_LOCKED" ]_vars

\* C4 witness: the state right after such a pass.
C4_Witness ==
  /\ pc = "loop" /\ LockedByPress /\ servoCmd = <<closedAngle>> /\ isButtonPressed
  /\ startTime = millis /\ Gt32(timerDuration, Zero)
  /\ eeprom[timerDurationAddr] = timerDuration

\* C5: a pass of loop() that starts Idle with Duration = 0 and detects a
\* press edge stays Idle, issues no servo command, leaves startTime alone
\* and does not put the store's Duration field.
C5_PressAtZeroIgnored ==
  [][ (LoopStep /\ currentLockState = "STATE_IDLE" /\ isButtonPressed'
         /\ timerDuration = Zero)
      => /\ currentLockState' = "STATE_IDLE"
         /\ servoCmd' = <<>>
         /\ servoAngle' = servoAngle
         /\ startTime' = startTime
         /\ timerDurationAddr \notin eepromPuts'
         /\ eeprom'[timerDurationAddr] = eeprom[timerDurationAddr] ]_vars

\* C5 witness: a press edge was just consumed in Idle with Duration = 0.
C5_Witness ==
  /\ pc = "loop" /\ currentLockState = "STATE_IDLE" /\ isButtonPressed
  /\ timerDuration = Zero /\ servoCmd = <<>>

\* C6: a pass of loop() reports a press exactly when the sampled level is
\* high and the level sampled by the previous pass was low, whatever the
\* lock state; a pass that finds the button already high at the previous
\* pass takes no Idle -> Locked transition.
C6_RisingEdgeOnly ==
  [][ LoopStep
      => /\ isButtonPressed' = (prevButtonState' /\ ~prevButtonState)
         /\ (prevButtonState /\ currentLockState = "STATE_IDLE"
               => currentLockState' = "STATE_IDLE") ]_vars

\* C6 witness: the button was high in two passes in a row while Idle with
\* Duration > 0, and the second pass did not lock.
C6_Witness ==
  /\ pc = "loop" /\ currentLockState = "STATE_IDLE" /\ prevButtonState
  /\ ~isButtonPressed /\ Gt32(timerDuration, Zero) /\ servoCmd = <<>>

\* C7: setup on an initialized store holding RemainingTime = R ends with
\* timeRemaining = R + punishment (the sum, for every R) and the state Locked.
C7_RestoreAddsPunishment ==
  [][ (SetupStep /\ EEPROMInitialized(eeprom))
      => /\ currentLockState' = "STATE_LOCKED"
         /\ timeRemaining' = Add32(eeprom[timeRemainingAddr], U32(punishment))
         /\ Carry32(eeprom[timeRemainingAddr], U32(punishment)) = 0 ]_vars

\* C8: setup on a store without the signature leaves every word zero except
\* the signature, which is written, and ends Locked with Duration = 0 and
\* RemainingTime = 0; every power-up after the first finds the signature.
C8_FirstBootFormats ==
  [][ SetupStep
      => /\ ~EEPROMInitialized(eeprom)
            => /\ \A a \in EEPROMAddrs \ {signatureAddr} : eeprom'[a] = Zero
               /\ eeprom'[signatureAddr] = signature
               /\ currentLockState' = "STATE_LOCKED"
               /\ timerDuration' = Zero
               /\ timeRemaining' = Zero
         /\ boots >= 1 => EEPROMInitialized(eeprom) ]_vars

\* C8 witness: the first power-up has formatted a store that held other data.
C8_Witness ==
  /\ boots = 1 /\ pc = "loop" /\ bootRemaining = <<>>
  /\ eeprom = FirstBooted /\ currentLockState = "STATE_LOCKED"
  /\ timerDuration = Zero /\ timeRemaining = Zero

\* C9: a timer poll with Duration D and elapsed time E leaves
\* RemainingTime = max(D - E, 0) and reports expired exactly when E is at
\* least the previous RemainingTime.
C9_PollContract ==
  [][ LoopStep
      => /\ timeRemaining' = MonusOrZero(timerDuration, Elapsed)
         /\ timerExpired' = Ge32(Elapsed, timeRemaining) ]_vars

\* C10: two consecutive checkpoint puts of one power-up are more than
\* interval apart, and a pass of loop() polled more than interval after the
\* checkpoint clock puts the current RemainingTime and resets that clock.
C10_CheckpointSpacing ==
  [][ LoopStep
      => /\ (Len(putLog') > Len(putLog) /\ Len(putLog) > 0)
              => Gt32(Sub32(putLog'[Len(putLog')], putLog[Len(putLog)]),
                      U32(interval))
         /\ Gt32(Sub32(millis', lastWriteTime), U32(interval))
              => /\ timeRemainingAddr \in eepromPuts'
                 /\ putLog' = Append(putLog, millis')
                 /\ eeprom'[timeRemainingAddr] = timeRemaining'
                 /\ lastWriteTime' = millis' ]_vars

\* C10 witness: a second checkpoint put has just happened in this power-up.
C10_Witness ==
  /\ pc = "loop" /\ Len(putLog) >= 2 /\ timeRemainingAddr \in eepromPuts
  /\ lastWriteTime = millis

\* C11: while a countdown started by a button press is active, the
\* RemainingTime held in the store exceeds the one in memory by no more than
\* one checkpoint interval.
C11_StoreWithinInterval ==
  (pc = "loop" /\ LockedByPress /\ Lt32(timeRemaining, eeprom[timeRemainingAddr]))
    => ~Gt32(Sub32(eeprom[timeRemainingAddr], timeRemaining), U32(interval))

\* C12: an encoder edge that arrives while Locked leaves Duration unchanged
\* and leaves no trace: Duration keeps its value in every step that stays
\* Locked, it is 0 when the box returns to Idle, and a step of the selector
\* changes Duration only in the idle state.
C12_LockedEdgesDropped ==
  [][ /\ (currentLockState = "STATE_LOCKED" /\ currentLockState' = "STATE_LOCKED"
            /\ pc' = pc)
           => timerDuration' = timerDuration
      /\ edgeDropped'
           => /\ currentLockState = "STATE_LOCKED"
              /\ UNCHANGED <<ram, locals, eeprom>>
      /\ (LoopStep /\ currentLockState = "STATE_LOCKED"
            /\ currentLockState' = "STATE_IDLE")
           => timerDuration' = Zero
      /\ (pc' = pc /\ currentLockState' = currentLockState
            /\ timerDuration' # timerDuration)
           => currentLockState = "STATE_IDLE" ]_vars

\* C12 witness: the box was locked by a press with Duration > 0 and the
\* selector has just run and ignored its edge.
C12_Witness ==
  /\ pc = "loop" /\ LockedByPress /\ edgeDropped /\ Gt32(timerDuration, Zero)

\* C15: when display.begin fails the program spins in setup: the state is
\* Locked, no servo command and no put has been issued, nothing was drawn,
\* and Duration, RemainingTime and the store are as setup left them, whatever
\* encoder edges arrive.
C15_HaltedIsFrozen ==
  pc = "halted"
    => /\ currentLockState = "STATE_LOCKED"
       /\ servoAngle = <<>> /\ servoCmd = <<>>
       /\ eepromPuts = {} /\ putLog = <<>>
       /\ screen = "blank" /\ ~isButtonPressed /\ ~prevButtonState
       /\ EEPROMInitialized(eeprom)
       /\ timerDuration = eeprom[timerDurationAddr]
       /\ timeRemaining = IF bootRemaining = <<>> THEN Zero ELSE bootRemaining
       /\ startTime = Zero /\ lastWriteTime = Zero /\ millis = Zero

\* C15 witness: the program is halted and the selector has run since.
C15_Witness ==
  /\ pc = "halted" /\ edgeDropped /\ bootRemaining # <<>>

\* An encoder edge: a step of RunScrollingService that changes Duration.
EncoderEdge ==
  /\ pc' = pc
  /\ currentLockState' = currentLockState
  /\ millis' = millis
  /\ timerDuration' # timerDuration

\* C13: Duration never wraps under zero: an encoder edge that is not an
\* increment leaves Duration lower than it was, and a decrement edge received
\* at Duration = 0 leaves it at 0 (no edge changes Duration from 0 to anything
\* but one increment).
C13_NeverBelowZero ==
  [][EncoderEdge =>
       \/ timerDuration' = Add32(timerDuration, U32(timerIncrement))
       \/ /\ Lt32(timerDuration', timerDuration)
          /\ timerDuration # Zero]_vars

\* a + b over the naturals, or 0 when the sum does not fit 32 bits
AddOrZero(a, b) == IF Carry32(a, b) > 0 THEN Zero ELSE Add32(a, b)

\* C14: no arithmetic on Duration or RemainingTime wraps: an encoder edge
\* leaves Duration + timerIncrement or Duration - timerIncrement clamped to 0
\* when out of range, a timer poll whose elapsed time exceeds Duration leaves
\* RemainingTime = 0, and the restore at power-up leaves the stored
\* RemainingTime + punishment, or 0 when that sum does not fit.
C14_ArithmeticClamps ==
  [][ /\ EncoderEdge
         => \/ timerDuration' = AddOrZero(timerDuration, U32(timerIncrement))
            \/ timerDuration' = MonusOrZero(timerDuration, U32(timerIncrement))
      /\ (LoopStep /\ Lt32(timerDuration, Elapsed)) => timeRemaining' = Zero
      /\ (SetupStep /\ EEPROMInitialized(eeprom))
         => timeRemaining'
              = AddOrZero(eeprom[timeRemainingAddr], U32(punishment)) ]_vars

\* C17: the running flag read by RunDisplayUpdateService is true in every
\* state where the box is locked by a button press, from the Idle->Locked
\* transition to the next Locked->Idle transition, and false in every Idle
\* state.
C17_RunningFlagFollowsLock ==
  /\ LockedByPress => isTimerRunning
  /\ currentLockState = "STATE_IDLE" => ~isTimerRunning

\* C19: within one power-up, once RemainingTime is 0 it stays 0 and every
\* later pass of loop() reports the timer expired, also after a button press
\* has locked the box again with a new Duration and a new StartTimestamp.
C19_ZeroRemainingSticks ==
  [][ (timeRemaining = Zero /\ pc = "loop" /\ pc' = "loop")
      => /\ timeRemaining' = Zero
         /\ LoopStep => timerExpired' ]_vars

\* C19 witness: a button press has locked the box with a new Duration and a
\* new StartTimestamp while RemainingTime was 0; that Duration has not
\* elapsed, RemainingTime is 0 and the timer is reported expired.
C19_Witness ==
  /\ LockedByPress /\ timeRemaining = Zero /\ timerExpired
  /\ eeprom[timerDurationAddr] = timerDuration
  /\ Gt32(startTime, Zero) /\ Lt32(sinceStart, timerDuration)

\* C20: the actuator follows LockState.  In every Idle state the latest
\* command since power-up was open; the step that locks the box on a button
\* press commands close, and no later step commands anything while the box
\* stays Locked; a pass of loop() commands the actuator exactly when it
\* changes LockState; power-up leaves the box Locked with no command issued.
C20_ServoFollowsLock ==
  [][ /\ currentLockState' = "STATE_IDLE" => servoAngle' = <<openAngle>>
      /\ (currentLockState = "STATE_IDLE" /\ currentLockState' = "STATE_LOCKED"
            /\ pc' # "off")
         => servoCmd' = <<closedAngle>> /\ servoAngle' = <<closedAngle>>
      /\ (currentLockState = "STATE_LOCKED" /\ currentLockState' = "STATE_LOCKED"
            /\ pc' # "off")
         => servoAngle' = servoAngle
      /\ LoopStep => (servoCmd' # <<>> <=> currentLockState' # currentLockState)
      /\ pc' = "off" => servoAngle' = <<>>
      /\ SetupStep => currentLockState' = "STATE_LOCKED" /\ servoAngle' = <<>>
    ]_vars

\* C20 witness: the second power-up left the box Locked without a command,
\* a pass of loop() opened it, a press locked it with the close command, and
\* a later pass of loop() has commanded nothing.
C20_Witness ==
  /\ boots = 2 /\ pc = "loop" /\ currentLockState = "STATE_LOCKED"
  /\ servoAngle = <<closedAngle>> /\ servoCmd = <<>> /\ ~edgeDropped

loopNoLock(level, gap) ==
  /\ loop(level, gap)
  /\ ~(currentLockState = "STATE_IDLE" /\ currentLockState' = "STATE_LOCKED")

\* A pass of loop() up to the statement before the EEPROM.put of the
\* STATE_IDLE case: the display, both event checkers, the guard, servo.write
\* and startTime = millis().
lockBegin(level, gap) ==
  /\ pc = "loop"
  /\ Lt32(millis, U32(MaxMillis)) \/ Ge32(millis, NearWrapClock)
  /\ LET now == Add32(millis, U32(gap * Step))
         b == CheckButtonPressed(prevButtonState, level)
         t == CheckTimerExpired(now, startTime, timerDuration,
                                timeRemaining, lastWriteTime, eeprom)
     IN  /\ currentLockState = "STATE_IDLE"
         /\ LockRequested(b.returnVal, timerDuration)
         /\ millis' = now
         /\ screen' = RunDisplayUpdateService(isTimerRunning)
         /\ prevButtonState' = b.prevButtonState
         /\ isButtonPressed' = b.returnVal
         /\ timerExpired' = t.returnVal
         /\ timeRemaining' = t.timeRemaining
         /\ lastWriteTime' = t.lastWriteTime
         /\ putLog' = IF t.wrote THEN Append(putLog, now) ELSE putLog
         /\ sinceWrite' = IF t.wrote THEN Zero
                                    ELSE AddTrue(sinceWrite, U32(gap * Step))
         /\ sinceStart' = Zero
         /\ eeprom' = t.eeprom
         /\ eepromPuts' = IF t.wrote THEN {timeRemainingAddr} ELSE {}
         /\ servoCmd' = ServoWrite(closedAngle)
         /\ servoAngle' = ServoWrite(closedAngle)
         /\ startTime' = now
  /\ pc' = "lock_put"
  /\ edgeDropped' = FALSE
  /\ UNCHANGED <<boots, currentLockState, timerDuration, isTimerRunning,
                 bootRemaining>>

\* EEPROM.put(timerDurationAddr, timerDuration)
lockPut ==
  /\ pc = "lock_put"
  /\ eeprom' = PutDuration(eeprom, timerDuration)
  /\ eepromPuts' = eepromPuts \cup {timerDurationAddr}
  /\ pc' = "lock_state"
  /\ UNCHANGED <<boots, millis, currentLockState, timerDuration, timeRemaining,
                 startTime, isTimerRunning, lastWriteTime, prevButtonState,
                 locals, servoCmd, servoAngle, putLog, bootRemaining,
                 sinceStart, sinceWrite, edgeDropped, screen>>

\* currentLockState = STATE_LOCKED, the last statement of the pass
lockState ==
  /\ pc = "lock_state"
  /\ currentLockState' = "STATE_LOCKED"
  /\ pc' = "loop"
  /\ edgeDropped' = FALSE
  /\ UNCHANGED <<boots, millis, eeprom, timerDuration, timeRemaining,
                 startTime, isTimerRunning, lastWriteTime, prevButtonState,
                 locals, trace, sinceStart, sinceWrite>>

NextIsr ==
  \/ PowerCycle
  \/ \E displayOk \in BOOLEAN : setup(displayOk)
  \/ \E A_state \in BOOLEAN, B_state \in BOOLEAN : RunScrollingService(A_state, B_state)
  \/ \E level \in BOOLEAN, gap \in 0 .. MaxGap : loopNoLock(level, gap)
  \/ \E level \in BOOLEAN, gap \in 0 .. MaxGap : lockBegin(level, gap)
  \/ lockPut
  \/ lockState

SpecIsr == Init /\ [][NextIsr]_vars

\* C16: whatever the encoder interrupt does during the lock transition, when
\* LockState becomes Locked through a button press the Duration in the store
\* equals the Duration in memory and is greater than 0.
C16_LockStoresDuration ==
  [][ (currentLockState = "STATE_IDLE" /\ currentLockState' = "STATE_LOCKED"
         /\ pc' # "off")
      => /\ eeprom'[timerDurationAddr] = timerDuration'
         /\ Gt32(timerDuration', Zero) ]_vars

====
